---- MODULE Spec2Model ----
(***************************************************************************)
(* The document ingestion and retrieval components of the repository:      *)
(*   PineconeIndexerComponent.process_files                                *)
(*       (src/components/vector_db/pinecone_insert.py)                     *)
(*   PineconeDocumentRetriever.retrieve_document                           *)
(*       (src/components/vector_db/document_retriever.py)                  *)
(* together with the two external stores they talk to: the Pinecone vector *)
(* index and the Postgres document store.                                  *)
(*                                                                         *)
(* A call is modelled as the sequence of its statements; an exception is   *)
(* the call ending with result.kind = "error" and result.msg the text of   *)
(* the exception that reaches the caller, as a sequence of its parts.      *)
(***************************************************************************)
EXTENDS Naturals, Sequences, FiniteSets

VARIABLES
    index,          \* the vector index: the set of Chunk Nodes it holds
    docstore,       \* the Postgres document store: key -> text, or Absent
    pc,             \* position of the running call
    call,           \* which component method is running
    calls,          \* number of calls started so far
    metadata,       \* self.metadata of the indexer
    file_list,      \* file_list of process_files
    file_id,        \* self.file_id of the retriever
    partition,      \* self.index_name / self.namespace of the retriever
    documents,      \* documents of process_files (reader.load_data())
    processed_data, \* processed_data of process_files
    i,              \* loop counter i of process_files
    node,           \* nodes[0] of retrieve_document
    ops,            \* external operations started by the running call
    log,            \* messages passed to self.log by the running call
    result,         \* what the call hands to its caller
    ingested,       \* history: documents whose index write completed
    input_value,    \* self.input_value of the Slack event component
    show_sql,       \* self.show_sql of the BigQuery component
    service_account_json, \* self.service_account_json, by what it parses to
    generated_sql,  \* generated_sql of NLToBigQueryComponent.build_output
    bq_rows,        \* the rows the executed query yields
    query_result,   \* what execute_sql returns
    image_urls,     \* image_urls of get_image_bytes
    idx,            \* loop index idx of get_image_bytes
    temp_files,     \* temp_files of get_image_bytes
    disk            \* the temporary files that exist

\* The state of the indexing and retrieval components, and of the others.
pipelineVars == <<index, docstore, metadata, file_list, file_id, partition,
                  documents, processed_data, i, node, ingested>>
slackVars == <<input_value>>
bigqueryVars == <<show_sql, service_account_json, generated_sql, bq_rows,
                  query_result>>
imageVars == <<image_urls, idx, temp_files, disk>>
otherVars == <<slackVars, bigqueryVars, imageVars>>

vars == <<index, docstore, pc, call, calls, metadata, file_list, file_id,
          partition, documents, processed_data, i, node, ops, log, result,
          ingested, slackVars, bigqueryVars, imageVars>>

(***************************************************************************)
(* Bounds                                                                  *)
(***************************************************************************)
MaxCalls == 2
MaxFiles == 2

(***************************************************************************)
(* Values                                                                  *)
(***************************************************************************)
Absent == "<absent>"
Keys == {"k1", "k2"}
Texts == {"t1", "t2"}
ReadableFiles == {"f1", "f2"}
Files == ReadableFiles \cup {"fx"}

\* The index process_files writes to, pc.Index("quickstart") with the
\* default namespace, and another index/namespace a retrieval may name.
IngestPartition == "quickstart"
Partitions == {IngestPartition, "other"}

IngestMarker == "Error during processing and indexing: "
RetrieveMarker == "Error retrieving document: "

\* The metadata keys the model tracks: the five of Schema, the key the
\* retriever filters on, and the key default_file_metadata_func sets.
Required == {"source", "user_id", "client", "title", "tag"}
StrFields == {"source", "user_id", "client", "title"}
Fields == Required \cup {"file id", "file_path"}

\* JSON values by kind: "null", a number, a list, or any other string.
NullValue == "null"
NumValue == "7"
ListValue == "[x]"
KindOf(v) ==
    IF v = Absent THEN "absent"
    ELSE IF v = NullValue THEN "null"
    ELSE IF v = NumValue THEN "num"
    ELSE IF v = ListValue THEN "list"
    ELSE "str"

(***************************************************************************)
(* Schema built from self.metadata: pydantic validation.  lax is whether    *)
(* the installed pydantic coerces a number given for a str field (1.x      *)
(* does, 2.x does not).  extra = "allow": other keys are not looked at.    *)
(***************************************************************************)
StrFieldOk(v, lax) == KindOf(v) = "str" \/ (lax /\ KindOf(v) = "num")

\* A tag field declared without its type: anything given is accepted.
ListFieldAny(v) == KindOf(v) # "absent"

ListFieldOk(v) == KindOf(v) = "list"

SchemaValid(m, lax) ==
    /\ \A f \in StrFields : StrFieldOk(m[f], lax)
    /\ ListFieldOk(m["tag"])

\* The mapping is never validated.
ValidationSkipped(m, lax) == FALSE

ValidationRaises(m, lax) == ~SchemaValid(m, lax)

(***************************************************************************)
(* Results and errors                                                      *)
(***************************************************************************)
NoResult == [kind |-> "none", rows |-> <<>>, text |-> "", msg |-> <<>>]
Raised(e) == [kind |-> "error", rows |-> <<>>, text |-> "", msg |-> e]
Rows(r) == [kind |-> "rows", rows |-> r, text |-> "", msg |-> <<>>]
MessageOf(t) == [kind |-> "message", rows |-> <<>>, text |-> t, msg |-> <<>>]

\* except Exception as e: error_msg = f"Error during ...: {str(e)}"
IngestErrorMsg(e) == <<IngestMarker>> \o e
\* except Exception as e: error_msg = f"Error retrieving document: {str(e)}"
RetrieveErrorMsg(e) == <<RetrieveMarker>> \o e

(***************************************************************************)
(* The document loader                                                     *)
(***************************************************************************)
\* default_file_metadata_func(filename): the file's own metadata.
DefaultMetadata(f) == [k \in Fields |-> IF k = "file_path" THEN f ELSE Absent]

\* The merge written the other way round: the file's own value wins.
MergeDefaultWins(default, custom) ==
    [k \in Fields |-> IF default[k] # Absent THEN default[k] ELSE custom[k]]

\* merged_metadata = {**default_metadata, **custom_metadata}
MergeMetadata(default, custom) ==
    [k \in Fields |-> IF custom[k] # Absent THEN custom[k] ELSE default[k]]

CustomMetadata(f, m) == MergeMetadata(DefaultMetadata(f), m)

\* The id and the text the reader gives the Document of a readable file.
DocId(f) == IF f = "f1" THEN "k1" ELSE "k2"
FileText(f) == IF f = "f1" THEN "t1" ELSE "t2"

LoadedDocument(f, m) ==
    [id |-> DocId(f), text |-> FileText(f), metadata |-> CustomMetadata(f, m)]

RECURSIVE LoadData(_, _)
LoadData(fl, m) ==
    IF fl = <<>> THEN <<>>
    ELSE IF Head(fl) \in ReadableFiles
         THEN <<LoadedDocument(Head(fl), m)>> \o LoadData(Tail(fl), m)
         ELSE LoadData(Tail(fl), m)

Unreadable(fl) == {j \in 1..Len(fl) : fl[j] \notin ReadableFiles}

\* Data(text=doc.text, data={"metadata": doc.metadata, "file_path": file_path})
RowOf(doc) ==
    [text |-> doc.text, metadata |-> doc.metadata,
     file_path |-> IF doc.metadata["file_path"] # Absent
                   THEN doc.metadata["file_path"] ELSE "Unknown"]

(***************************************************************************)
(* The vector index                                                        *)
(***************************************************************************)
NoSource == "<no source>"

\* The Chunk Node VectorStoreIndex.from_documents writes for a Document:
\* the Document's metadata, and a SOURCE relationship to the Document's id.
ChunkNode(doc) ==
    [file_id |-> doc.metadata["file id"], source |-> doc.id,
     part |-> IngestPartition]

NodesOf(docs, n) == {ChunkNode(docs[j]) : j \in 1..n}

WrittenOf(docs) ==
    {[key |-> docs[j].metadata["file id"], id |-> docs[j].id,
      text |-> docs[j].text] : j \in 1..Len(docs)}

(***************************************************************************)
(* Logging and the record of external operations                           *)
(***************************************************************************)
\* self.log(text); n is the number a message formats into its text.
LogEntry(kind, text, n) == [kind |-> kind, text |-> text, n |-> n]
\* An external operation the call started, and whether it completed.
Op(name, ok) == [op |-> name, ok |-> ok]

NetworkOps ==
    {"pinecone_client", "pinecone_index", "embed_model", "vector_store",
     "index_write", "docstore_connect", "index_query", "doc_lookup"}

OpsNamed(name) == {j \in 1..Len(ops) : ops[j].op = name}
Completed(name) == \E j \in OpsNamed(name) : ops[j].ok

(***************************************************************************)
(* Inputs                                                                  *)
(***************************************************************************)
BaseMeta ==
    [k \in Fields |->
        IF k = "source" THEN "email"
        ELSE IF k = "user_id" THEN "a@x.com"
        ELSE IF k = "client" THEN "Acme"
        ELSE IF k = "title" THEN "T"
        ELSE IF k = "tag" THEN ListValue
        ELSE Absent]

\* The metadata mappings a call of process_files is given: valid ones, with
\* and without the extra keys "file id" and "file_path", and invalid ones.
MetaInputs ==
    {BaseMeta,
     [BaseMeta EXCEPT !["file id"] = "k1"],
     [BaseMeta EXCEPT !["file_path"] = "user_path"],
     [BaseMeta EXCEPT !["tag"] = Absent],
     [BaseMeta EXCEPT !["tag"] = "x"],
     [BaseMeta EXCEPT !["source"] = NullValue]}

\* Every mapping over the five required keys, each absent or of any kind
\* Schema tells apart (for a str field a list is refused as null is), with
\* or without an extra key.
StrKinds == {Absent, NullValue, NumValue, "s"}
TagKinds == {Absent, NullValue, NumValue, ListValue, "s"}
AllMeta ==
    {[k \in Fields |-> IF k \in StrFields THEN r[k]
                       ELSE IF k = "tag" THEN t
                       ELSE IF k = "file id" THEN x ELSE Absent] :
        r \in [StrFields -> StrKinds], t \in TagKinds, x \in {Absent, "k1"}}

Injective(s) == \A a, b \in 1..Len(s) : s[a] = s[b] => a = b
FileInputs ==
    {s \in UNION {[1..n -> Files] : n \in 0..MaxFiles} : Injective(s)}

\* What other writers left in the two stores: no node, one node for "k1"
\* (with a source, with none, or in the other index), or two nodes for "k1"
\* with different sources; and any set of keys stored with the text "t1".
ChunkOf(k, src, p) == [file_id |-> k, source |-> src, part |-> p]
InitIndexes ==
    {{},
     {ChunkOf("k1", "k1", IngestPartition)},
     {ChunkOf("k1", "k2", IngestPartition)},
     {ChunkOf("k1", NoSource, IngestPartition)},
     {ChunkOf("k1", "k1", "other")},
     {ChunkOf("k1", "k1", IngestPartition),
      ChunkOf("k1", "k2", IngestPartition)}}
InitDocstores == [Keys -> {Absent, "t1"}]

(***************************************************************************)
(* Initial state: the two stores hold what other writers left in them.     *)
(***************************************************************************)
NoNode == [file_id |-> Absent, source |-> NoSource, part |-> "none"]

\* The other components before their first call.
NoInput == [json |-> "none"]
OthersIdle ==
    /\ input_value = NoInput
    /\ show_sql = "Yes"
    /\ service_account_json = "valid"
    /\ generated_sql = <<>>
    /\ bq_rows = <<>>
    /\ query_result = <<>>
    /\ image_urls = <<>>
    /\ idx = 0
    /\ temp_files = <<>>
    /\ disk = {}

Idle ==
    /\ OthersIdle
    /\ pc = "idle"
    /\ call = "none"
    /\ calls = 0
    /\ metadata = BaseMeta
    /\ file_list = <<>>
    /\ file_id = Absent
    /\ partition = IngestPartition
    /\ documents = <<>>
    /\ processed_data = <<>>
    /\ i = 0
    /\ node = NoNode
    /\ ops = <<>>
    /\ log = <<>>
    /\ result = NoResult
    /\ ingested = {}

Init ==
    /\ index \in InitIndexes
    /\ docstore \in InitDocstores
    /\ Idle

(***************************************************************************)
(* PineconeIndexerComponent.process_files                                  *)
(***************************************************************************)
\* The platform calls the output method with the component's inputs set.
StartProcessFiles(m, fl) ==
    /\ pc \in {"idle", "done"}
    /\ calls < MaxCalls
    /\ calls' = calls + 1
    /\ call' = "process_files"
    /\ pc' = "pf_validate"
    /\ metadata' = m
    /\ file_list' = fl
    /\ documents' = <<>>
    /\ processed_data' = <<>>
    /\ i' = 0
    /\ node' = NoNode
    /\ ops' = <<>>
    /\ log' = <<>>
    /\ result' = NoResult
    /\ UNCHANGED <<index, docstore, file_id, partition, ingested>>
    /\ UNCHANGED otherVars

\* valid_meta = Schema(...): outside the try, so a ValidationError reaches
\* the caller as it is, and nothing is logged.
PFValidate ==
    /\ pc = "pf_validate"
    /\ \E lax \in BOOLEAN :
         IF ValidationRaises(metadata, lax)
         THEN /\ result' = Raised(<<"ValidationError">>)
              /\ pc' = "done"
         ELSE /\ result' = result
              /\ pc' = "pf_files"
    /\ UNCHANGED <<index, docstore, call, calls, metadata, file_list, file_id,
                   partition, documents, processed_data, i, node, ops, log,
                   ingested>>
    /\ UNCHANGED otherVars

\* if not file_list: raise ValueError("No files to process."), outside the
\* try as well.
PFFiles ==
    /\ pc = "pf_files"
    /\ IF file_list = <<>>
       THEN /\ result' = Raised(<<"No files to process.">>)
            /\ pc' = "done"
       ELSE /\ result' = result
            /\ pc' = "pf_connect"
    /\ UNCHANGED <<index, docstore, call, calls, metadata, file_list, file_id,
                   partition, documents, processed_data, i, node, ops, log,
                   ingested>>
    /\ UNCHANGED otherVars

\* The except clause of process_files: log error_msg, raise ValueError.
IngestFailure(e) == Raised(IngestErrorMsg(e))
IngestFailureLog(e) == LogEntry("error", IngestErrorMsg(e), 0)

\* Pinecone(...), pc.Index("quickstart"), OpenAIEmbedding(...),
\* PineconeVectorStore(...), StorageContext.from_defaults(...), self.log.
PFConnect(ok) ==
    /\ pc = "pf_connect"
    /\ IF ok
       THEN /\ ops' = ops \o <<Op("pinecone_client", TRUE),
                               Op("pinecone_index", TRUE),
                               Op("embed_model", TRUE),
                               Op("vector_store", TRUE)>>
            /\ log' = Append(log, LogEntry("info", <<"file_paths">>, 0))
            /\ result' = result
            /\ pc' = "pf_load"
       ELSE /\ ops' = Append(ops, Op("pinecone_client", FALSE))
            /\ log' = Append(log, IngestFailureLog(<<"remote call failed">>))
            /\ result' = IngestFailure(<<"remote call failed">>)
            /\ pc' = "done"
    /\ UNCHANGED <<index, docstore, call, calls, metadata, file_list, file_id,
                   partition, documents, processed_data, i, node, ingested>>
    /\ UNCHANGED otherVars

\* What the reader does with a file it cannot read is the library's choice:
\* SimpleDirectoryReader raises for a path that is no file, and skips a file
\* whose load fails (printing, not logging).  The component handles neither.
LoadOutcomes(fl) == IF Unreadable(fl) = {} THEN {"ok"} ELSE {"raise", "skip"}

\* reader = SimpleDirectoryReader(...); documents = reader.load_data()
PFLoad(outcome) ==
    /\ pc = "pf_load"
    /\ outcome \in LoadOutcomes(file_list)
    /\ IF outcome = "raise"
       THEN /\ ops' = Append(ops, Op("load_data", FALSE))
            /\ log' = Append(log, IngestFailureLog(<<"load error">>))
            /\ result' = IngestFailure(<<"load error">>)
            /\ documents' = documents
            /\ pc' = "done"
       ELSE /\ ops' = Append(ops, Op("load_data", TRUE))
            /\ log' = log
            /\ result' = result
            /\ documents' = LoadData(file_list, metadata)
            /\ pc' = "pf_loop"
    /\ processed_data' = <<>>
    /\ i' = 0
    /\ UNCHANGED <<index, docstore, call, calls, metadata, file_list, file_id,
                   partition, node, ingested>>
    /\ UNCHANGED otherVars

\* A loop without its inner try: the failure of one document ends the call
\* in the outer except clause.
PFRowAborting(ok) ==
    /\ pc = "pf_loop"
    /\ i < Len(documents)
    /\ i' = i + 1
    /\ IF ok
       THEN /\ processed_data' = Append(processed_data, RowOf(documents[i + 1]))
            /\ log' = log
            /\ result' = result
            /\ pc' = pc
       ELSE /\ processed_data' = processed_data
            /\ log' = Append(log, LogEntry("error",
                                <<"Error processing document: ">>, 0))
            /\ result' = Raised(<<IngestMarker, "row error">>)
            /\ pc' = "done"
    /\ UNCHANGED <<index, docstore, call, calls, metadata, file_list,
                   file_id, partition, documents, node, ops, ingested>>
    /\ UNCHANGED otherVars

\* One pass of "for doc in documents": the row is appended, or the inner
\* except logs the error and the loop goes on.
PFRow(ok) ==
    /\ pc = "pf_loop"
    /\ i < Len(documents)
    /\ i' = i + 1
    /\ IF ok
       THEN /\ processed_data' = Append(processed_data, RowOf(documents[i + 1]))
            /\ log' = log
       ELSE /\ processed_data' = processed_data
            /\ log' = Append(log, LogEntry("error",
                                <<"Error processing document: ">>, 0))
    /\ UNCHANGED <<index, docstore, pc, call, calls, metadata, file_list,
                   file_id, partition, documents, node, ops, result, ingested>>
    /\ UNCHANGED otherVars

\* The documents handed to VectorStoreIndex.from_documents.
IndexedDocuments == documents

IndexingLog == LogEntry("info", <<"Indexing documents to Pinecone">>,
                        Len(processed_data))

\* The failure of the index write is swallowed and the rows are returned.
IndexWriteSwallowed(rows) == Rows(rows)

\* What the call hands back when the index write raised after n documents.
IndexWriteFailed(rows) == IngestFailure(<<"remote call failed">>)

\* self.log("Indexing ..."); VectorStoreIndex.from_documents(documents, ...);
\* self.log("Successfully ..."); return DataFrame().add_rows(processed_data).
\* The storage context has the vector store only: nothing is written to the
\* document store.  A write that fails may have written some of the nodes.
PFIndex(ok, n) ==
    /\ pc = "pf_loop"
    /\ i = Len(documents)
    /\ IF ok
       THEN /\ n = Len(IndexedDocuments)
            /\ ops' = Append(ops, Op("index_write", TRUE))
            /\ log' = log \o <<IndexingLog,
                   LogEntry("info", <<"Successfully indexed documents">>, 0)>>
            /\ result' = Rows(processed_data)
            /\ ingested' = ingested \cup WrittenOf(IndexedDocuments)
       ELSE /\ n < Len(IndexedDocuments) \/ n = 0
            /\ ops' = Append(ops, Op("index_write", FALSE))
            /\ log' = log \o <<IndexingLog,
                               IngestFailureLog(<<"remote call failed">>)>>
            /\ result' = IndexWriteFailed(processed_data)
            /\ ingested' = ingested
    /\ index' = index \cup NodesOf(IndexedDocuments, n)
    /\ pc' = "done"
    /\ UNCHANGED <<docstore, call, calls, metadata, file_list, file_id,
                   partition, documents, processed_data, i, node>>
    /\ UNCHANGED otherVars

ProcessFiles ==
    \/ \E m \in MetaInputs, fl \in FileInputs : StartProcessFiles(m, fl)
    \/ PFValidate
    \/ PFFiles
    \/ \E ok \in BOOLEAN : PFConnect(ok)
    \/ \E outcome \in {"ok", "raise", "skip"} : PFLoad(outcome)
    \/ \E ok \in BOOLEAN : PFRow(ok)
    \/ \E ok \in BOOLEAN, n \in 0..(MaxFiles + 1) : PFIndex(ok, n)

(***************************************************************************)
(* PineconeDocumentRetriever.retrieve_document                             *)
(***************************************************************************)
StartRetrieveDocument(k, p) ==
    /\ pc \in {"idle", "done"}
    /\ calls < MaxCalls
    /\ calls' = calls + 1
    /\ call' = "retrieve_document"
    /\ pc' = "rd_connect"
    /\ file_id' = k
    /\ partition' = p
    /\ documents' = <<>>
    /\ processed_data' = <<>>
    /\ i' = 0
    /\ node' = NoNode
    /\ ops' = <<>>
    /\ log' = <<>>
    /\ result' = NoResult
    /\ UNCHANGED <<index, docstore, metadata, file_list, ingested>>
    /\ UNCHANGED otherVars

\* The except clause of retrieve_document: log error_msg, raise ValueError.
RetrieveFailure(e) == Raised(RetrieveErrorMsg(e))
RetrieveFailureLog(e) == LogEntry("error", RetrieveErrorMsg(e), 0)

\* The operations of the connection phase up to the one that fails.
ConnectOps(outcome) ==
    <<Op("pinecone_client", TRUE), Op("docstore_connect", outcome # "engine")>>
    \o (IF outcome = "engine" THEN <<>>
        ELSE <<Op("pinecone_index", outcome # "index")>>)
    \o (IF outcome \in {"engine", "index"} THEN <<>>
        ELSE <<Op("vector_store", outcome # "vector_store")>>)

\* str(e) of the exception the connection phase raises: the two inner
\* except clauses put their own text before the cause.
ConnectError(outcome) ==
    IF outcome = "index"
    THEN <<"Error accessing Pinecone index: ", "remote call failed">>
    ELSE IF outcome = "vector_store"
    THEN <<"Error creating vector store with namespace: ", "remote call failed">>
    ELSE <<"remote call failed">>

\* Pinecone(...), PostgresEngine.afrom_instance(...),
\* PostgresDocumentStore.create_sync(...), pc.Index(...), PineconeVectorStore(...)
RDConnect(outcome) ==
    /\ pc = "rd_connect"
    /\ ops' = ops \o ConnectOps(outcome)
    /\ IF outcome = "ok"
       THEN /\ pc' = "rd_query"
            /\ log' = log
            /\ result' = result
       ELSE /\ pc' = "done"
            /\ log' = Append(log, RetrieveFailureLog(ConnectError(outcome)))
            /\ result' = RetrieveFailure(ConnectError(outcome))
    /\ UNCHANGED <<index, docstore, call, calls, metadata, file_list, file_id,
                   partition, documents, processed_data, i, node, ingested>>
    /\ UNCHANGED otherVars

\* The query is made without its metadata filter.
UnfilteredNodes == {n \in index : n.part = partition}

\* vector_store.get_nodes(filters=filters): the nodes of the named index and
\* namespace whose metadata "file id" equals self.file_id.
MatchingNodes ==
    {n \in index : n.part = partition /\ n.file_id = file_id}

\* if not nodes
NoNodes(nodes) == nodes = {}

\* An empty query result is answered with an empty Message.
EmptyQueryMessage == MessageOf("")

\* msg = f"No document found with file path: {self.file_id}"; raise ValueError
EmptyQueryResult ==
    RetrieveFailure(<<"No document found with file path: ", file_id>>)

QueryError(ok, nodes) ==
    IF ~ok THEN <<"remote call failed">>
    ELSE IF NoNodes(nodes)
    THEN <<"No document found with file path: ", file_id>>
    ELSE <<"list index out of range">>

\* nodes = vector_store.get_nodes(...); if not nodes: raise; nodes[0] is
\* whichever matching node the store returns first.
RDQuery(ok) ==
    /\ pc = "rd_query"
    /\ ops' = Append(ops, Op("index_query", ok))
    /\ LET nodes == MatchingNodes IN
         \/ /\ ok
            /\ ~NoNodes(nodes)
            /\ \E n \in nodes : node' = n
            /\ pc' = "rd_lookup"
            /\ log' = log
            /\ result' = result
         \/ /\ ~ok \/ NoNodes(nodes) \/ nodes = {}   \* nodes[0] of no node
            /\ node' = node
            /\ pc' = "done"
            /\ log' = Append(log, RetrieveFailureLog(QueryError(ok, nodes)))
            /\ result' = IF ok /\ NoNodes(nodes) THEN EmptyQueryResult
                         ELSE RetrieveFailure(QueryError(ok, nodes))
    /\ UNCHANGED <<index, docstore, call, calls, metadata, file_list, file_id,
                   partition, documents, processed_data, i, ingested>>
    /\ UNCHANGED otherVars

\* A missing document is answered with an empty Message.
MissingDocumentAsEmptyText(how) == MessageOf("")

\* What the lookup of a key the document store does not hold ends in: the
\* store raises ValueError, or returns None and document.text raises
\* AttributeError; the except clause wraps either.
MissingDocumentResult(how) ==
    RetrieveFailure(IF how = "raise" THEN <<"doc_id not found">>
                    ELSE <<"'NoneType' object has no attribute 'text'">>)

\* message = Message(text=document_text)
FoundDocumentResult(text) == MessageOf(text)

\* relationships.get(NodeRelationship.SOURCE) is None for a node that has
\* no source relationship: .node_id raises before any lookup is made.
RDNoSource ==
    /\ pc = "rd_lookup"
    /\ node.source = NoSource
    /\ pc' = "done"
    /\ log' = Append(log, RetrieveFailureLog(
                 <<"'NoneType' object has no attribute 'node_id'">>))
    /\ result' = RetrieveFailure(
                 <<"'NoneType' object has no attribute 'node_id'">>)
    /\ UNCHANGED <<index, docstore, call, calls, metadata, file_list, file_id,
                   partition, documents, processed_data, i, node, ops,
                   ingested>>
    /\ UNCHANGED otherVars

\* document = doc_store.get_document(doc_id=source_node_info.node_id);
\* document_text = document.text; self.log(...); return Message(...)
RDLookup(ok, how) ==
    /\ pc = "rd_lookup"
    /\ node.source # NoSource
    /\ ops' = Append(ops, Op("doc_lookup", ok))
    /\ pc' = "done"
    /\ IF ~ok
       THEN /\ result' = RetrieveFailure(<<"remote call failed">>)
            /\ log' = Append(log, RetrieveFailureLog(<<"remote call failed">>))
       ELSE IF docstore[node.source] = Absent
       THEN /\ result' = MissingDocumentResult(how)
            /\ log' = Append(log, LogEntry("error", result'.msg, 0))
       ELSE /\ result' = FoundDocumentResult(docstore[node.source])
            /\ log' = log \o
                 <<LogEntry("info", <<"Successfully retrieved document">>, 0),
                   LogEntry("info", <<"document: ">>, 0)>>
    /\ UNCHANGED <<index, docstore, call, calls, metadata, file_list, file_id,
                   partition, documents, processed_data, i, node, ingested>>
    /\ UNCHANGED otherVars

RetrieveDocument ==
    \/ \E k \in Keys, p \in Partitions : StartRetrieveDocument(k, p)
    \/ \E outcome \in {"ok", "engine", "index", "vector_store"} :
          RDConnect(outcome)
    \/ \E ok \in BOOLEAN : RDQuery(ok)
    \/ RDNoSource
    \/ \E ok \in BOOLEAN, how \in {"raise", "none"} : RDLookup(ok, how)

Next == ProcessFiles \/ RetrieveDocument

Spec == Init /\ [][Next]_vars

(***************************************************************************)
(* The validation alone, over every metadata mapping                       *)
(***************************************************************************)
InitSchema ==
    /\ index = {}
    /\ docstore = [k \in Keys |-> Absent]
    /\ Idle

NextSchema ==
    \/ \E m \in AllMeta : StartProcessFiles(m, <<"f1">>)
    \/ PFValidate

SpecSchema == InitSchema /\ [][NextSchema]_vars

(***************************************************************************)
(* Properties                                                              *)
(***************************************************************************)
Finished(c) == pc = "done" /\ call = c
AllOpsCompleted == \A j \in 1..Len(ops) : ops[j].ok
NodesFor(k, p) == {n \in index : n.part = p /\ n.file_id = k}
ErrorLogs == {j \in 1..Len(log) : log[j].kind = "error"}
ValidationFailed ==
    Finished("process_files") /\ result = Raised(<<"ValidationError">>)

\* C1: once process_files has written a Document with key K and body T
\* (its index write completed), retrieve_document with file_id = K, on the
\* same index and with every remote call answered, returns exactly T.
C1_RoundTrip ==
    (/\ Finished("retrieve_document")
     /\ partition = IngestPartition
     /\ AllOpsCompleted
     /\ \E w \in ingested : w.key = file_id)
    => /\ result.kind = "message"
       /\ \E w \in ingested : w.key = file_id /\ result.text = w.text

\* C2: after a process_files call in which no external write failed, the
\* document store holds every ingested Document's text under its key, so
\* that the source of every Chunk Node written resolves to a record.
C2_DocumentsPersisted ==
    (Finished("process_files") /\ result.kind = "rows")
    => /\ \A j \in 1..Len(documents) :
             docstore[documents[j].id] = documents[j].text
       /\ \A n \in NodesOf(documents, Len(documents)) :
             docstore[n.source] # Absent

\* C3: when the index holds no Chunk Node for file_id, retrieve_document
\* ends in an error carrying the retrieval marker and never in a Message;
\* once the index query was answered, the error is the no-document-found one.
C3_NoNodeFails ==
    (Finished("retrieve_document") /\ NodesFor(file_id, partition) = {})
    => /\ result.kind = "error"
       /\ result.text = ""
       /\ Head(result.msg) = RetrieveMarker
       /\ Completed("index_query") =>
            result.msg = <<RetrieveMarker,
                           "No document found with file path: ", file_id>>

C3_Witness ==
    /\ Finished("retrieve_document")
    /\ NodesFor(file_id, partition) = {}
    /\ index # {}
    /\ Completed("index_query")
    /\ result.kind = "error"

\* C4: when the first node's source points to a key the document store does
\* not hold, retrieve_document ends in an error carrying the retrieval
\* marker, as every other retrieval failure does: no text is returned and no
\* unwrapped exception escapes.
C4_DanglingSourceFails ==
    (/\ Finished("retrieve_document")
     /\ node # NoNode
     /\ node.source # NoSource
     /\ docstore[node.source] = Absent)
    => /\ result.kind = "error"
       /\ result.text = ""
       /\ Len(result.msg) >= 2
       /\ Head(result.msg) = RetrieveMarker

C4_Witness ==
    /\ Finished("retrieve_document")
    /\ node # NoNode
    /\ node.source # NoSource
    /\ docstore[node.source] = Absent
    /\ Completed("doc_lookup")
    /\ result.kind = "error"

\* C5: a run of retrieve_document ends in exactly one of a Message and an
\* error; the document lookup is started only after the index query was
\* answered with at least one matching node; and a Message is returned only
\* after the query found a node and the lookup found its document, whose
\* text the Message carries.
C5_RetrievalFlow ==
    call = "retrieve_document"
    => /\ pc = "done" => result.kind \in {"message", "error"}
       /\ pc # "done" => result = NoResult
       /\ OpsNamed("doc_lookup") # {} =>
            /\ node \in NodesFor(file_id, partition)
            /\ \E q \in OpsNamed("index_query") :
                 /\ ops[q].ok
                 /\ \A l \in OpsNamed("doc_lookup") : q < l
       /\ result.kind = "message" =>
            /\ Completed("index_query")
            /\ Completed("doc_lookup")
            /\ node \in NodesFor(file_id, partition)
            /\ docstore[node.source] # Absent
            /\ result.text = docstore[node.source]

C5_Witness ==
    /\ Finished("retrieve_document")
    /\ result.kind = "message"
    /\ Cardinality(NodesFor(file_id, partition)) > 1

\* C6 as stated: validation fails for every mapping that lacks one of the
\* five keys or whose tag is no list, and succeeds for every mapping that
\* has all five with tag a list.
HasAllFive(m) ==
    /\ \A f \in Required : m[f] # Absent
    /\ KindOf(m["tag"]) = "list"

C6_Original ==
    /\ (call = "process_files" /\ pc = "pf_files") => HasAllFive(metadata)
    /\ ValidationFailed => ~HasAllFive(metadata)

\* C6 as amended: validation fails for every mapping that lacks one of the
\* five keys or whose tag is no list, and succeeds for every mapping in which
\* source, user_id, client and title are strings and tag is a list, whatever
\* extra keys it has.
HasAllFiveTyped(m) ==
    /\ \A f \in StrFields : KindOf(m[f]) = "str"
    /\ KindOf(m["tag"]) = "list"

C6_SchemaValidation ==
    /\ (call = "process_files" /\ pc = "pf_files") => HasAllFive(metadata)
    /\ ValidationFailed => ~HasAllFiveTyped(metadata)

C6_Witness ==
    /\ call = "process_files"
    /\ pc = "pf_files"
    /\ HasAllFiveTyped(metadata)
    /\ metadata["file id"] # Absent

\* C7: when exactly one file of the batch is unreadable and nothing else
\* fails, process_files returns one row per readable file and logs one
\* failure.
C7_UnreadableFileIsolated ==
    (/\ Finished("process_files")
     /\ Cardinality(Unreadable(file_list)) = 1
     /\ OpsNamed("load_data") # {}
     /\ \A j \in 1..Len(ops) : ops[j].op # "load_data" => ops[j].ok
     /\ Len(processed_data) = Len(documents))
    => /\ result.kind = "rows"
       /\ Len(result.rows) = Len(file_list) - 1
       /\ Cardinality(ErrorLogs) = 1

\* C8: every error a call ends in begins with that call's marker.
C8_ErrorsCarryMarker ==
    (pc = "done" /\ result.kind = "error")
    => /\ result.msg # <<>>
       /\ Head(result.msg) = IF call = "process_files" THEN IngestMarker
                             ELSE RetrieveMarker

\* C9: in process_files no external operation is started before the
\* validation has completed, and none at all in a run whose metadata fails
\* validation.
C9_ValidationFirst ==
    call = "process_files"
    => /\ pc = "pf_validate" => ops = <<>>
       /\ (\A lax \in BOOLEAN : ~SchemaValid(metadata, lax)) =>
            /\ \A j \in 1..Len(ops) : ops[j].op \notin NetworkOps
            /\ pc \in {"pf_validate", "done"}
            /\ pc = "done" => result.kind = "error"

C9_Witness ==
    /\ Finished("process_files")
    /\ \A lax \in BOOLEAN : ~SchemaValid(metadata, lax)
    /\ file_list # <<>>
    /\ result.kind = "error"

\* C10: process_files ends with rows or with an error, never both: rows are
\* returned only when the index write completed, and a call that ends in an
\* error delivers no rows.
C10_RowsOrError ==
    Finished("process_files")
    => /\ result.kind \in {"rows", "error"}
       /\ result.kind = "rows" =>
            /\ Completed("index_write")
            /\ AllOpsCompleted
            /\ result.msg = <<>>
            /\ result.rows = processed_data
       /\ result.kind = "error" => result.rows = <<>> /\ result.msg # <<>>

C10_Witness ==
    /\ Finished("process_files")
    /\ OpsNamed("index_write") # {}
    /\ ~Completed("index_write")
    /\ processed_data # <<>>
    /\ result.kind = "error"

\* The readable files of the batch, in the order given: one Document each.
RECURSIVE LoadedFiles(_)
LoadedFiles(fl) ==
    IF fl = <<>> THEN <<>>
    ELSE IF Head(fl) \in ReadableFiles
         THEN <<Head(fl)>> \o LoadedFiles(Tail(fl))
         ELSE LoadedFiles(Tail(fl))

Loaded == call = "process_files" /\ Completed("load_data")

\* C11: the metadata of every loaded Document is the merge of the file's
\* own metadata and the user's mapping: the user's value for every key the
\* user gives, the file's value for every other key.
C11_UserMetadataWins ==
    Loaded
    => /\ Len(documents) = Len(LoadedFiles(file_list))
       /\ \A j \in 1..Len(documents) : \A k \in Fields :
            documents[j].metadata[k] =
                IF metadata[k] # Absent THEN metadata[k]
                ELSE DefaultMetadata(LoadedFiles(file_list)[j])[k]

C11_Witness ==
    /\ Loaded
    /\ Len(documents) = 2
    /\ metadata["file_path"] = "user_path"
    /\ documents[1].metadata["file_path"] = "user_path"
    /\ documents[1].metadata["source"] = "email"

\* The number of row failures the loop has logged.
RowErrors ==
    Cardinality({j \in 1..Len(log) :
                    log[j].text = <<"Error processing document: ">>})

\* rows is made of rows of docs, each at most once, in the order of docs.
OrderedSelection(rows, docs) ==
    \E f \in [1..Len(rows) -> 1..Len(docs)] :
        /\ \A a, b \in 1..Len(rows) : a < b => f[a] < f[b]
        /\ \A a \in 1..Len(rows) : rows[a] = RowOf(docs[f[a]])

\* C12: in the result loop a document that fails produces no row and one
\* logged error, and the loop goes on: every document is visited before the
\* call leaves the loop, and the rows returned are the rows of the documents
\* that did not fail, in input order.
C12_RowFailureIsolated ==
    Loaded
    => /\ Len(processed_data) + RowErrors = i
       /\ OrderedSelection(processed_data, documents)
       /\ pc = "done" => i = Len(documents) /\ OpsNamed("index_write") # {}
       /\ result.kind = "rows" => result.rows = processed_data

C12_Witness ==
    /\ Finished("process_files")
    /\ result.kind = "rows"
    /\ Len(documents) = 2
    /\ result.rows = <<RowOf(documents[2])>>
    /\ RowErrors = 1

\* C15: the documents written to the index are the documents that produced
\* a row, and the number logged before the write is their number.
C15_IndexedAreProcessed ==
    (Finished("process_files") /\ Completed("index_write"))
    => /\ \E j \in 1..Len(log) :
            /\ log[j].text = <<"Indexing documents to Pinecone">>
            /\ log[j].n = Len(documents)
       /\ Len(processed_data) = Len(documents)
       /\ \A j \in 1..Len(documents) :
            ChunkNode(documents[j]) \in index =>
                \E a \in 1..Len(processed_data) :
                    processed_data[a] = RowOf(documents[j])

(***************************************************************************)
(* SlackEventComponent.build_output                                        *)
(*     (src/components/slack/slack_event_component.py)                     *)
(* The input string is given by what json.loads makes of it.               *)
(***************************************************************************)
MaxSlackFiles == 2

\* An entry of "files": an object with a url_private_download, an object
\* without one, or a value that is no object.
FileEntries == {"u1", "u2", "nourl", "notobject"}
FilesValues ==
    {[kind |-> k, items |-> <<>>] :
        k \in {"absent", "null", "number", "string", "object"}}
    \cup {[kind |-> "list", items |-> q] :
            q \in UNION {[1..n -> FileEntries] : n \in 0..MaxSlackFiles}}

NoFiles == [kind |-> "absent", items |-> <<>>]
SlackInputs ==
    {[json |-> j, type |-> Absent, reaction |-> Absent, text |-> Absent,
      files |-> NoFiles] : j \in {"invalid", "list", "number", "string", "null"}}
    \cup [json : {"object"},
          type : {Absent, "reaction_added", "app_mention", "message"},
          reaction : {Absent, "smile"},
          text : {Absent, "hi"},
          files : FilesValues]

\* The exception "for file_data in files_list: file_data.get(...)" raises,
\* or "none": a truthy value that is no list cannot be iterated or yields
\* strings, and an entry that is no object has no get.
FilesException(files) ==
    IF files.kind = "number" THEN "TypeError"
    ELSE IF files.kind \in {"string", "object"} THEN "AttributeError"
    ELSE IF files.kind = "list"
            /\ \E j \in 1..Len(files.items) : files.items[j] = "notobject"
    THEN "AttributeError"
    ELSE "none"

\* slack_urls: the url of every entry that has one.
RECURSIVE SlackUrls(_)
SlackUrls(items) ==
    IF items = <<>> THEN <<>>
    ELSE IF Head(items) \in {"u1", "u2"}
         THEN <<Head(items)>> \o SlackUrls(Tail(items))
         ELSE SlackUrls(Tail(items))

\* "\n".join(slack_urls)
RECURSIVE JoinLines(_)
JoinLines(urls) ==
    IF urls = <<>> THEN <<>>
    ELSE IF Len(urls) = 1 THEN urls
    ELSE <<Head(urls), "LF">> \o JoinLines(Tail(urls))

OrDefault(v, d) == IF v = Absent THEN d ELSE v

\* json.dumps of a str: quoted, the line feeds escaped.
JsonDumpsStr(parts) ==
    <<"\"">>
    \o [j \in 1..Len(parts) |-> IF parts[j] = "LF" THEN "\\n" ELSE parts[j]]
    \o <<"\"">>
\* json.dumps({"error": e})
JsonDumpsError(e) == <<"{\"error\": \"", e, "\"}">>

\* The exception that leaves build_output: only json.JSONDecodeError is
\* caught.
SlackEscapes(e) == Raised(<<e>>)

\* build_output as a whole.
SlackOutput(inp) ==
    IF inp.json = "invalid"
    THEN MessageOf(JsonDumpsError("Invalid JSON input"))
    ELSE IF inp.json # "object"
    THEN SlackEscapes("AttributeError")
    ELSE IF FilesException(inp.files) # "none"
    THEN SlackEscapes(FilesException(inp.files))
    ELSE LET urls_string == JoinLines(SlackUrls(inp.files.items)) IN
         IF inp.type = "reaction_added"
         THEN MessageOf(JsonDumpsStr(
                <<OrDefault(inp.reaction, "No reaction found"), "LF">>
                \o urls_string))
         ELSE IF inp.type = "app_mention"
         THEN MessageOf(JsonDumpsStr(
                <<OrDefault(inp.text, "No message found"), "LF">>
                \o urls_string))
         ELSE MessageOf(JsonDumpsError("Unknown event type"))

SlackBuildOutput(inp) ==
    /\ pc \in {"idle", "done"}
    /\ calls < MaxCalls
    /\ calls' = calls + 1
    /\ call' = "slack_build_output"
    /\ pc' = "done"
    /\ input_value' = inp
    /\ ops' = <<>>
    /\ log' = <<>>
    /\ result' = SlackOutput(inp)
    /\ UNCHANGED <<pipelineVars, bigqueryVars, imageVars>>

InitSlack ==
    /\ index = {}
    /\ docstore = [k \in Keys |-> Absent]
    /\ Idle

NextSlack == \E inp \in SlackInputs : SlackBuildOutput(inp)

SpecSlack == InitSlack /\ [][NextSlack]_vars

\* C13: build_output returns a Message for every input: the "Invalid JSON
\* input" object for a string that is no JSON, the "Unknown event type"
\* object for an event of another type, and no exception escapes.
C13_SlackAlwaysAnswers ==
    Finished("slack_build_output")
    => /\ result.kind = "message"
       /\ input_value.json = "invalid" =>
            result.text = <<"{\"error\": \"", "Invalid JSON input", "\"}">>
       /\ (/\ input_value.json # "invalid"
           /\ input_value.type \notin {"reaction_added", "app_mention"}) =>
            result.text = <<"{\"error\": \"", "Unknown event type", "\"}">>

(***************************************************************************)
(* NLToBigQueryComponent.build_output, generate_sql and execute_sql        *)
(*     (src/components/SQL/botvertiser.py)                                 *)
(* A text is the sequence of its parts; the empty text is <<>>.            *)
(***************************************************************************)
MaxRows == 2

\* What the model answers: the SQL, bare or inside a markdown fence (the
\* opening fence with its sql tag, and the closing fence).
FenceSql == "<fence sql>"
Fence == "<fence>"
LLMResponses ==
    {<<"SELECT 1">>, <<"SELECT 2">>, <<FenceSql, "SELECT 1", Fence>>}

\* sql.replace(opening fence, "").replace(fence, "").strip()
CleanSql(resp) == SelectSeq(resp, LAMBDA t : t \notin {FenceSql, Fence})

\* The values of a result row: an integer, a Decimal, or a date, which
\* json.dumps cannot encode.
RowValues == {"1", "dec", "date"}
RowSeqs == UNION {[1..n -> RowValues] : n \in 0..MaxRows}

\* DecimalEncoder.default: a Decimal becomes a float.
EncodeValue(v) == IF v = "dec" THEN "1.5" ELSE v

Encodable(rows) == \A j \in 1..Len(rows) : rows[j] # "date"

\* json.dumps(rows, indent=2, cls=DecimalEncoder)
JsonDumpsRows(rows) ==
    IF rows = <<>> THEN <<"[]">>
    ELSE <<"[">> \o [j \in 1..Len(rows) |-> EncodeValue(rows[j])] \o <<"]">>

\* The Python operator or on two texts: the second when the first is empty.
PyOr(a, b) == IF a = <<>> THEN b ELSE a

\* return json.dumps(...) or "No results found."
ExecuteSqlReturn(rows) == PyOr(JsonDumpsRows(rows), <<"No results found.">>)

\* The except clause is missing: the exception leaves build_output.
BigQueryEscapes(e) == Raised(e)

\* except Exception as e: return Message(text=f"Error: {str(e)}")
BigQueryError(e) == MessageOf(<<"Error: ">> \o e)

\* f"Generated SQL:\n{generated_sql}\n\nQuery Result:\n{query_result}", or
\* the query result alone.
FormatOutput(show, sql, res) ==
    IF show = "Yes"
    THEN <<"Generated SQL:">> \o sql \o <<"Query Result:">> \o res
    ELSE res

StartBigQuery(show, sa) ==
    /\ pc \in {"idle", "done"}
    /\ calls < MaxCalls
    /\ calls' = calls + 1
    /\ call' = "bigquery_build_output"
    /\ pc' = "bq_generate"
    /\ show_sql' = show
    /\ service_account_json' = sa
    /\ generated_sql' = <<>>
    /\ bq_rows' = <<>>
    /\ query_result' = <<>>
    /\ ops' = <<>>
    /\ log' = <<>>
    /\ result' = NoResult
    /\ UNCHANGED <<pipelineVars, slackVars, imageVars>>

\* Step 1: generated_sql = self.generate_sql(...)
BQGenerate(ok, resp) ==
    /\ pc = "bq_generate"
    /\ ops' = Append(ops, Op("llm", ok))
    /\ IF ok
       THEN /\ generated_sql' = CleanSql(resp)
            /\ result' = result
            /\ pc' = "bq_execute"
       ELSE /\ generated_sql' = generated_sql
            /\ result' = BigQueryError(<<"remote call failed">>)
            /\ pc' = "done"
    /\ UNCHANGED <<pipelineVars, slackVars, imageVars, calls, call, log,
                   show_sql, service_account_json, bq_rows, query_result>>

\* The failure of execute_sql, if any: the secret is no JSON or names no
\* project, the query fails, or a row cannot be encoded.
ExecuteFailure(sa, ok, rows) ==
    IF sa = "invalid" THEN "JSONDecodeError"
    ELSE IF sa = "no_project" THEN "KeyError"
    ELSE IF ~ok THEN "remote call failed"
    ELSE IF ~Encodable(rows) THEN "TypeError"
    ELSE "none"

ExecuteOps(sa, ok, rows) ==
    <<Op("service_account", sa = "valid")>>
    \o (IF sa = "valid" THEN <<Op("bigquery_query", ok)>> ELSE <<>>)
    \o (IF sa = "valid" /\ ok THEN <<Op("json_dumps", Encodable(rows))>>
        ELSE <<>>)

\* Step 2: query_result = self.execute_sql(generated_sql, ...)
BQExecute(ok, rows) ==
    /\ pc = "bq_execute"
    /\ ops' = ops \o ExecuteOps(service_account_json, ok, rows)
    /\ IF ExecuteFailure(service_account_json, ok, rows) = "none"
       THEN /\ bq_rows' = rows
            /\ query_result' = ExecuteSqlReturn(rows)
            /\ result' = result
            /\ pc' = "bq_format"
       ELSE /\ bq_rows' = bq_rows
            /\ query_result' = query_result
            /\ result' = BigQueryError(
                            <<ExecuteFailure(service_account_json, ok, rows)>>)
            /\ pc' = "done"
    /\ UNCHANGED <<pipelineVars, slackVars, imageVars, calls, call, log,
                   show_sql, service_account_json, generated_sql>>

\* Step 3: format the response and return the Message.
BQFormat ==
    /\ pc = "bq_format"
    /\ result' = MessageOf(FormatOutput(show_sql, generated_sql, query_result))
    /\ pc' = "done"
    /\ UNCHANGED <<pipelineVars, slackVars, imageVars, calls, call, log, ops,
                   bigqueryVars>>

InitBigQuery ==
    /\ index = {}
    /\ docstore = [k \in Keys |-> Absent]
    /\ Idle

NextBigQuery ==
    \/ \E show \in {"Yes", "No"}, sa \in {"valid", "invalid", "no_project"} :
          StartBigQuery(show, sa)
    \/ \E ok \in BOOLEAN, resp \in LLMResponses : BQGenerate(ok, resp)
    \/ \E ok \in BOOLEAN, rows \in RowSeqs : BQExecute(ok, rows)
    \/ BQFormat

SpecBigQuery == InitBigQuery /\ [][NextBigQuery]_vars

\* C14: build_output always ends in a Message; the query is run only after
\* the SQL was generated; and when the generation or the execution fails
\* the Message is "Error: " followed by the failure, with no query result.
C14_BigQueryErrors ==
    call = "bigquery_build_output"
    => /\ pc = "done" => result.kind = "message"
       /\ pc # "done" => result = NoResult
       /\ (pc \in {"bq_execute", "bq_format"}
           \/ OpsNamed("service_account") # {}
           \/ OpsNamed("bigquery_query") # {}) =>
            /\ Completed("llm")
            /\ generated_sql \in {<<"SELECT 1">>, <<"SELECT 2">>}
            /\ \A l \in OpsNamed("llm"), q \in OpsNamed("bigquery_query") :
                 l < q
       /\ (pc = "done" /\ ~AllOpsCompleted) =>
            /\ Len(result.text) = 2
            /\ Head(result.text) = "Error: "
            /\ query_result = <<>>
       /\ (pc = "done" /\ AllOpsCompleted) =>
            /\ Completed("bigquery_query")
            /\ result.text \in {query_result,
                 <<"Generated SQL:">> \o generated_sql
                 \o <<"Query Result:">> \o query_result}

C14_Witness ==
    /\ Finished("bigquery_build_output")
    /\ Completed("llm")
    /\ OpsNamed("bigquery_query") # {}
    /\ ~Completed("bigquery_query")
    /\ result.text = <<"Error: ", "remote call failed">>

\* C17: execute_sql returns "No results found." when the query yields no
\* row, and the JSON encoding of the rows otherwise.
C17_NoResultsText ==
    (call = "bigquery_build_output" /\ Completed("json_dumps"))
    => query_result = IF bq_rows = <<>> THEN <<"No results found.">>
                      ELSE JsonDumpsRows(bq_rows)

(***************************************************************************)
(* GPTImageTool.get_image_bytes                                            *)
(*     (src/components/image/gpt_image_tool.py)                            *)
(***************************************************************************)
MaxUrls == 2

ImageUrls == {"http://x/a.png", "http://c/upload/a.png"}
NotAString == "<number>"

\* self.image_url: empty, a plain URL, a JSON array of URLs, or a JSON
\* value that is no array.
ImageUrlInputs ==
    {[kind |-> "empty", urls |-> <<>>], [kind |-> "json_scalar", urls |-> <<>>]}
    \cup {[kind |-> "plain", urls |-> <<u>>] : u \in ImageUrls}
    \cup {[kind |-> "json_list", urls |-> q] :
            q \in UNION {[1..n -> ImageUrls] : n \in 0..MaxUrls}}

\* json.loads(self.image_url); a value that is no list is wrapped in one;
\* a string that is no JSON is taken as the one URL.
ParseImageUrls(inp) ==
    IF inp.kind = "json_scalar" THEN <<NotAString>> ELSE inp.urls

\* url.replace("/upload/", "/upload/f_jpg/")
ConvertUrl(u) ==
    IF u = "http://c/upload/a.png" THEN "http://c/upload/f_jpg/a.png" ELSE u

\* tempfile.mkstemp: a file that does not exist yet.
NewTempFile ==
    CHOOSE n \in 1..(Cardinality(disk) + 1) : n \notin disk

Returned(t) == [kind |-> "returned", rows |-> <<>>, text |-> t, msg |-> <<>>]

\* except Exception as e: raise RuntimeError(f"Error in get_image_bytes: ...")
ImageError(e) == Raised(<<"Error in get_image_bytes: ", e>>)

StartGetImageBytes(inp) ==
    /\ pc \in {"idle", "done"}
    /\ calls < MaxCalls
    /\ calls' = calls + 1
    /\ call' = "get_image_bytes"
    /\ pc' = IF inp.kind = "empty" THEN "img_post" ELSE "img_download"
    /\ image_urls' = ParseImageUrls(inp)
    /\ idx' = 0
    /\ temp_files' = <<>>
    /\ ops' = <<>>
    /\ log' = <<>>
    /\ result' = NoResult
    /\ UNCHANGED <<pipelineVars, slackVars, bigqueryVars, disk>>

\* One pass of "for idx, url in enumerate(image_urls)": the image is
\* downloaded into a new temporary file, which is added to temp_files.
IMGDownload(ok) ==
    /\ pc = "img_download"
    /\ idx < Len(image_urls)
    /\ IF image_urls[idx + 1] = NotAString
       THEN /\ ops' = ops
            /\ result' = ImageError("TypeError")
            /\ pc' = "done"
            /\ UNCHANGED <<idx, temp_files, disk>>
       ELSE IF ~ok
       THEN /\ ops' = Append(ops, Op(ConvertUrl(image_urls[idx + 1]), FALSE))
            /\ result' = ImageError("remote call failed")
            /\ pc' = "done"
            /\ UNCHANGED <<idx, temp_files, disk>>
       ELSE /\ ops' = Append(ops, Op(ConvertUrl(image_urls[idx + 1]), TRUE))
            /\ result' = result
            /\ pc' = pc
            /\ idx' = idx + 1
            /\ temp_files' = Append(temp_files, NewTempFile)
            /\ disk' = disk \cup {NewTempFile}
    /\ UNCHANGED <<pipelineVars, slackVars, bigqueryVars, calls, call, log,
                   image_urls>>

\* client.post(".../images/edits" or ".../images/generations");
\* response.raise_for_status()
IMGPost(ok) ==
    /\ \/ pc = "img_post"
       \/ pc = "img_download" /\ idx = Len(image_urls)
    /\ ops' = Append(ops, Op("openai", ok))
    /\ IF ok
       THEN /\ result' = result
            /\ pc' = "img_decode"
       ELSE /\ result' = ImageError("remote call failed")
            /\ pc' = "done"
    /\ UNCHANGED <<pipelineVars, slackVars, bigqueryVars, imageVars, calls,
                   call, log>>

\* What the response holds: base64 data, a url (whose download succeeds or
\* fails), an entry with neither, or no data entry at all.
ImageData == {"b64_json", "url", "url_fails", "neither", "no_data"}

DecodeError(data) ==
    IF data = "url_fails" THEN "remote call failed"
    ELSE IF data = "neither" THEN "No image data found in OpenAI response."
    ELSE "KeyError"

\* result = response.json(); image_data = result["data"][0]; the bytes are
\* decoded or downloaded; then "for f in temp_files: f.unlink()", where an
\* unlink that raises is passed over (kept: the files it raised for); then
\* the data URI is returned.  An exception skips the clean-up.
IMGDecode(data) ==
    /\ pc = "img_decode"
    /\ pc' = "done"
    /\ IF data \in {"b64_json", "url"}
       THEN /\ \E kept \in SUBSET {temp_files[j] : j \in 1..Len(temp_files)} :
                 disk' = (disk \ {temp_files[j] : j \in 1..Len(temp_files)})
                         \cup kept
            /\ result' = Returned(<<"data:image/png;base64,", "image">>)
       ELSE /\ disk' = disk
            /\ result' = ImageError(DecodeError(data))
    /\ UNCHANGED <<pipelineVars, slackVars, bigqueryVars, calls, call, log,
                   ops, image_urls, idx, temp_files>>

InitImage ==
    /\ index = {}
    /\ docstore = [k \in Keys |-> Absent]
    /\ Idle

NextImage ==
    \/ \E inp \in ImageUrlInputs : StartGetImageBytes(inp)
    \/ \E ok \in BOOLEAN : IMGDownload(ok)
    \/ \E ok \in BOOLEAN : IMGPost(ok)
    \/ \E data \in ImageData : IMGDecode(data)

SpecImage == InitImage /\ [][NextImage]_vars

\* C16: on every exit from get_image_bytes, by return or by exception,
\* every temporary file the call created has been deleted.
C16_NoTempFileLeft ==
    Finished("get_image_bytes")
    => \A j \in 1..Len(temp_files) : temp_files[j] \notin disk

====
